---- MODULE Spec2Model ----
(***************************************************************************)
(* Two standalone instrument control panels:                               *)
(*   Nanovoltmeter/src/Nanovoltmeter_controller.py  (KeithleyDeltaApp)     *)
(*   Picoammeter/src/pico_controller.py             (KeithleyApp)          *)
(* Each is one GUI thread (Qt event loop: button handlers and the slots of *)
(* the worker's queued signals) plus one background polling thread, one    *)
(* threading.Lock and one VISA instrument handle.  A behaviour is a run of *)
(* one of the two programs; `app` says which.                              *)
(***************************************************************************)
EXTENDS Integers, Sequences, FiniteSets, TLC

VARIABLES
    app,              \* which program runs: "nano" or "pico"
    lock,             \* self.lock: "free", "gui" or "worker" (the holder)
    running,          \* self.running
    exiting,          \* self.exiting (nano)
    start_time,       \* self.start_time (nano): "None" or "set"
    btn_start,        \* btn_start.isEnabled() (nano)
    evq,              \* queued signals from the worker thread to the GUI thread
    gpc,              \* position of the GUI thread ("idle" = in the event loop)
    wpc,              \* position of the worker thread
    status,           \* last text passed to signals.status.emit
    expected,         \* _run_delta_mode: expected = count_pairs
    last_len,         \* _run_delta_mode: last_len
    vals,             \* _run_delta_mode: len(vals) of the latest poll
    idx,              \* _run_delta_mode: loop variable i of the streaming loop
    sent,             \* commands of this Delta run, in order, each with its outcome
    emittedIdx,       \* buffer indices passed to new_point.emit in this Delta run
    t0_set,           \* this Delta run has assigned start_time
    ioAfterClose,     \* the worker used the handle after closeEvent closed it
    link,             \* the GPIB link to the instrument is up
    buf,              \* readings in the 6221 trace buffer
    measuring,        \* the 6221 is running Delta (INIT:IMM accepted, no *RST since)
    closed,           \* closeEvent has reset and closed the handle
    paused,           \* self.paused (pico)
    btn_play,         \* btn_play.isEnabled() (pico)
    btn_pause,        \* btn_pause.isEnabled() (pico)
    total_run_time,   \* self.total_run_time (pico)
    last_resume_time, \* self.last_resume_time (pico): None or a clock value
    timestamps,       \* self.timestamps (pico), each with the true active time
    now,              \* time.time()
    active,           \* time spent running and not paused since the last clear
    is_running,       \* update_loop: is_running
    is_paused,        \* update_loop: is_paused
    total_time,       \* update_loop: total_time
    resume_time       \* update_loop: resume_time

nanoLocals == <<expected, last_len, vals, idx>>
nanoGhost  == <<sent, emittedIdx, t0_set, ioAfterClose>>
instr      == <<link, buf, measuring, closed>>
nanoGui    == <<exiting, start_time, btn_start>>
picoShared == <<paused, total_run_time, last_resume_time>>
picoGui    == <<btn_play, btn_pause, timestamps>>
picoLocals == <<is_running, is_paused, total_time, resume_time>>
clock      == <<now, active>>
picoVars   == <<picoShared, picoGui, picoLocals, clock>>
nanoVars   == <<nanoLocals, nanoGhost, instr, nanoGui>>
vars == <<app, lock, running, evq, gpc, wpc, status, nanoVars, picoVars>>

(* Bounds of the model *)
MaxCount == 2       \* delta_count spin box values tried: 1..MaxCount
MaxBuf == 2         \* readings the trace buffer may hold
MaxQ == 1           \* queued, not yet delivered signals
MaxTime == 2        \* clock ticks
MaxSeries == 1      \* readings kept in the picoammeter series

None == -1          \* Python's None for the time fields

(***************************************************************************)
(* Helpers shared by both programs                                         *)
(***************************************************************************)

\* pyqtSignal.emit from the worker thread: a queued connection.  Once the
\* window has accepted its close event nothing is delivered any more.
Emit(sig) == IF gpc = "quit" THEN evq' = evq
             ELSE Len(evq) < MaxQ /\ evq' = Append(evq, sig)

\* A VISA call can succeed only on an open handle whose link is up.
IoUp == link /\ ~closed

\* Every use of the handle by the worker is noted against closeEvent.
UseHandle == ioAfterClose' = (ioAfterClose \/ closed)

Cmd(c, route, ok) == [cmd |-> c, via |-> route, ok |-> ok]

(***************************************************************************)
(* Nanovoltmeter: worker thread                                            *)
(***************************************************************************)

\* worker_loop: `while not self.exiting`, then time.sleep(0.05)
WLoop ==
    /\ app = "nano" /\ wpc = "loop"
    /\ wpc' = IF exiting THEN "dead" ELSE "check"
    /\ UNCHANGED <<app, lock, running, evq, gpc, status, nanoVars, picoVars>>

\* worker_loop: `with self.lock: should_run = self.running`
WCheck ==
    /\ app = "nano" /\ wpc = "check" /\ lock = "free"
    /\ wpc' = IF running THEN "enter" ELSE "loop"
    /\ UNCHANGED <<app, lock, running, evq, gpc, status, nanoVars, picoVars>>

\* _run_delta_mode: read the spin boxes, emit "Configuring ..."
WEnter ==
    /\ app = "nano" /\ wpc = "enter"
    /\ \E c \in 1..MaxCount : expected' = c
    /\ status' = "Configuring Delta Mode on 6221/2182A..."
    /\ sent' = <<>> /\ emittedIdx' = <<>> /\ t0_set' = FALSE
    /\ last_len' = 0 /\ vals' = 0 /\ idx' = 0
    /\ wpc' = "rst6221"
    /\ UNCHANGED <<app, lock, running, evq, gpc, ioAfterClose, instr, nanoGui, picoVars>>

\* the except branch with its return left out: the run goes on to Start
SetupErrorNoReturn ==
    /\ status' = "Setup Error"
    /\ wpc' = "init"

\* `except Exception as e: status.emit(f"Setup Error: {e}"); return`
SetupError ==
    /\ status' = "Setup Error"
    /\ wpc' = "emit_done"

\* The instrument's reaction to an accepted *RST
InstrReset == buf' = 0 /\ measuring' = FALSE

\* 1. Reset 6221
WRst6221 ==
    /\ app = "nano" /\ wpc = "rst6221"
    /\ UseHandle
    /\ \/ /\ IoUp
          /\ sent' = Append(sent, Cmd("*RST", "gpib", TRUE))
          /\ InstrReset
          /\ wpc' = "relay_rst" /\ UNCHANGED status
       \/ /\ sent' = Append(sent, Cmd("*RST", "gpib", FALSE))
          /\ SetupError
          /\ UNCHANGED <<buf, measuring>>
    /\ UNCHANGED <<app, lock, running, evq, gpc, nanoLocals, emittedIdx, t0_set,
                   link, closed, nanoGui, picoVars>>

\* _relay_send: the write raised; caught inside the helper and reported
RelayFailed == "Relay send failed"

\* The log after one _relay_send(c): delivered, or failed and reported.
RelayLog(log, c, ok) == Append(log, Cmd(c, "relay", ok))

\* 2. Reset 2182A through the serial bridge
WRelayRst ==
    /\ app = "nano" /\ wpc = "relay_rst"
    /\ UseHandle
    /\ \/ /\ IoUp
          /\ sent' = RelayLog(sent, "*RST", TRUE)
          /\ UNCHANGED status
       \/ /\ sent' = RelayLog(sent, "*RST", FALSE)
          /\ status' = RelayFailed
    /\ wpc' = "nvpr"
    /\ UNCHANGED <<app, lock, running, evq, gpc, nanoLocals, emittedIdx, t0_set,
                   instr, nanoGui, picoVars>>

\* the link check with its comparison left out
NvprMismatchDropped(nvpr) == FALSE

\* `nvpr = int(query(...)); if nvpr != 1: raise`
NvprMismatch(nvpr) == nvpr # 1
NvprAccepted(nvpr) == ~NvprMismatch(nvpr)

\* 3. Verify 2182A link
WNvpr ==
    /\ app = "nano" /\ wpc = "nvpr"
    /\ UseHandle
    /\ \/ /\ IoUp
          /\ \E nvpr \in 0..2 :
                IF NvprAccepted(nvpr)
                THEN /\ sent' = Append(sent, Cmd("SOUR:DELT:NVPR?", "gpib", nvpr = 1))
                     /\ status' = "Instruments synced. Sending parameters..."
                     /\ wpc' = "cfg2182"
                ELSE /\ sent' = Append(sent, Cmd("SOUR:DELT:NVPR?", "gpib", FALSE))
                     /\ SetupError
       \/ /\ sent' = Append(sent, Cmd("SOUR:DELT:NVPR?", "gpib", FALSE))
          /\ SetupError
    /\ UNCHANGED <<app, lock, running, evq, gpc, nanoLocals, emittedIdx, t0_set,
                   instr, nanoGui, picoVars>>

Relay2182 == {"SENS:FUNC 'VOLT'", "SENS:VOLT:NPLC", "TRIG:SOUR EXT", "TRIG:COUNT INF"}

\* 4. Configure 2182A: four _relay_send calls, none of which can raise; each
\* is delivered or fails and is reported.  The run's record keeps one entry
\* for the four: ok when all of them were delivered.
WCfg2182 ==
    /\ app = "nano" /\ wpc = "cfg2182"
    /\ UseHandle
    /\ \E delivered \in SUBSET Relay2182 :
          /\ (delivered # {} => IoUp)
          /\ sent' = RelayLog(sent, "2182A settings", delivered = Relay2182)
          /\ status' = IF delivered = Relay2182 THEN status ELSE RelayFailed
    /\ wpc' = "cfg6221"
    /\ UNCHANGED <<app, lock, running, evq, gpc, nanoLocals, emittedIdx, t0_set,
                   instr, nanoGui, picoVars>>

Cfg6221 == <<"SOUR:DELT:HIGH", "SOUR:DELT:LOW", "SOUR:DELT:DEL", "SOUR:DELT:COUN",
             "SOUR:DELT:CAB ON", "TRAC:POIN", "FORM:ELEM READ">>

RECURSIVE WriteAll(_, _, _)
\* The log after writing Cfg6221 in order when the first n writes succeed:
\* the write after them (if any) raises and nothing later is attempted.
WriteAll(log, k, n) ==
    IF k > Len(Cfg6221) THEN log
    ELSE IF k > n THEN Append(log, Cmd(Cfg6221[k], "gpib", FALSE))
    ELSE WriteAll(Append(log, Cmd(Cfg6221[k], "gpib", TRUE)), k + 1, n)

\* 5. Configure 6221 Delta: seven writes, the first to raise aborts the setup
WCfg6221 ==
    /\ app = "nano" /\ wpc = "cfg6221"
    /\ UseHandle
    /\ \E n \in 0..Len(Cfg6221) :
          /\ (n > 0 => IoUp)
          /\ sent' = WriteAll(sent, 1, n)
          /\ IF n = Len(Cfg6221)
             THEN wpc' = "arm" /\ UNCHANGED status
             ELSE SetupError
    /\ UNCHANGED <<app, lock, running, evq, gpc, nanoLocals, emittedIdx, t0_set,
                   instr, nanoGui, picoVars>>

\* Arm: write SOUR:DELT:ARM, sleep 2 s
WArm ==
    /\ app = "nano" /\ wpc = "arm"
    /\ UseHandle
    /\ \/ /\ IoUp
          /\ sent' = Append(sent, Cmd("SOUR:DELT:ARM", "gpib", TRUE))
          /\ wpc' = "init" /\ UNCHANGED status
       \/ /\ sent' = Append(sent, Cmd("SOUR:DELT:ARM", "gpib", FALSE))
          /\ SetupError
    /\ UNCHANGED <<app, lock, running, evq, gpc, nanoLocals, emittedIdx, t0_set,
                   instr, nanoGui, picoVars>>

\* Start: emit "Running Delta...", write INIT:IMM; a raise is a "Runtime Error"
WInit ==
    /\ app = "nano" /\ wpc = "init"
    /\ UseHandle
    /\ \/ /\ IoUp
          /\ sent' = Append(sent, Cmd("INIT:IMM", "gpib", TRUE))
          /\ measuring' = TRUE
          /\ status' = "Running Delta..."
          /\ wpc' = "t0_lock"
       \/ /\ sent' = Append(sent, Cmd("INIT:IMM", "gpib", FALSE))
          /\ UNCHANGED measuring
          /\ status' = "Runtime Error"
          /\ wpc' = "emit_done"
    /\ UNCHANGED <<app, lock, running, evq, gpc, nanoLocals, emittedIdx, t0_set,
                   link, buf, closed, nanoGui, picoVars>>

\* `with self.lock:` before `self.start_time = time.time()`
WT0Lock ==
    /\ app = "nano" /\ wpc = "t0_lock" /\ lock = "free"
    /\ lock' = "worker"
    /\ wpc' = "t0_set"
    /\ UNCHANGED <<app, running, evq, gpc, status, nanoVars, picoVars>>

\* `self.start_time = time.time()` (lock held), then `last_len = 0`
WT0Set ==
    /\ app = "nano" /\ wpc = "t0_set" /\ lock = "worker"
    /\ start_time' = "set" /\ t0_set' = TRUE
    /\ last_len' = 0
    /\ lock' = "free"
    /\ wpc' = "poll"
    /\ UNCHANGED <<app, running, evq, gpc, status, expected, vals, idx,
                   sent, emittedIdx, ioAfterClose, instr, exiting, btn_start, picoVars>>

\* Poll loop: `raw = query("TRAC:DATA?")`, parsed into vals; any exception
\* (the query or a float() of a garbled field) leaves vals = [].
WPoll ==
    /\ app = "nano" /\ wpc = "poll"
    /\ UseHandle
    /\ \/ /\ IoUp
          /\ \E n \in 0..buf : vals' = n
       \/ vals' = 0
    /\ wpc' = "stream"
    /\ UNCHANGED <<app, lock, running, evq, gpc, status, expected, last_len, idx,
                   sent, emittedIdx, t0_set, instr, nanoGui, picoVars>>

\* `if len(vals) > last_len:`
HasNew(n, last) == n > last

\* first index of `range(last_len, len(vals))`
StreamFrom(last) == last

\* last_len left one short of what was streamed
LastLenStale(n) == n - 1

\* `last_len = len(vals)` after the streaming loop
LastLenAfter(n) == n

\* Stream new points: the test, and `with self.lock: base = self.start_time`
WStream ==
    /\ app = "nano" /\ wpc = "stream"
    /\ IF HasNew(vals, last_len)
       THEN /\ lock = "free"
            /\ idx' = StreamFrom(last_len)
            /\ wpc' = "emit"
       ELSE /\ wpc' = "complete"
            /\ UNCHANGED idx
    /\ UNCHANGED <<app, lock, running, evq, gpc, status, expected, last_len, vals,
                   nanoGhost, instr, nanoGui, picoVars>>

\* one turn of `for i in range(last_len, len(vals)): new_point.emit(...)`;
\* leaving the loop sets last_len
WEmit ==
    /\ app = "nano" /\ wpc = "emit"
    /\ IF idx < vals
       THEN /\ Emit(<<"new_point">>)
            /\ emittedIdx' = Append(emittedIdx, idx)
            /\ idx' = idx + 1
            /\ UNCHANGED <<last_len, wpc>>
       ELSE /\ last_len' = LastLenAfter(vals)
            /\ wpc' = "complete"
            /\ UNCHANGED <<evq, emittedIdx, idx>>
    /\ UNCHANGED <<app, lock, running, gpc, status, expected, vals,
                   sent, t0_set, ioAfterClose, instr, nanoGui, picoVars>>

\* the completion check off by one
BufferFullEarly(n, e) == n + 1 >= e

\* Completion check: `if len(vals) >= expected:`
BufferFull(n, e) == n >= e

\* Completion check; otherwise time.sleep(REFRESH_INTERVAL) and poll again
WComplete ==
    /\ app = "nano" /\ wpc = "complete"
    /\ IF BufferFull(vals, expected)
       THEN /\ status' = "Buffer full. Finishing..."
            /\ wpc' = "final_rst"
       ELSE /\ wpc' = "poll"
            /\ UNCHANGED status
    /\ UNCHANGED <<app, lock, running, evq, gpc, nanoVars, picoVars>>

\* `try: self.k6221.write("*RST") except: pass`, then return
WFinalRst ==
    /\ app = "nano" /\ wpc = "final_rst"
    /\ UseHandle
    /\ \/ /\ IoUp
          /\ sent' = Append(sent, Cmd("*RST", "gpib", TRUE))
          /\ InstrReset
       \/ /\ sent' = Append(sent, Cmd("*RST", "gpib", FALSE))
          /\ UNCHANGED <<buf, measuring>>
    /\ wpc' = "emit_done"
    /\ UNCHANGED <<app, lock, running, evq, gpc, status, nanoLocals, emittedIdx,
                   t0_set, link, closed, nanoGui, picoVars>>

\* _run_delta_mode has returned (its locals and this run's records are gone);
\* worker_loop: `self.signals.done.emit()`
WEmitDone ==
    /\ app = "nano" /\ wpc = "emit_done"
    /\ Emit(<<"done">>)
    /\ expected' = 0 /\ last_len' = 0 /\ vals' = 0 /\ idx' = 0
    /\ sent' = <<>> /\ emittedIdx' = <<>> /\ t0_set' = FALSE
    /\ wpc' = "loop"
    /\ UNCHANGED <<app, lock, running, gpc, status, ioAfterClose, instr, nanoGui,
                   picoVars>>

NanoWorker ==
    \/ WLoop \/ WCheck \/ WEnter \/ WRst6221 \/ WRelayRst \/ WNvpr \/ WCfg2182
    \/ WCfg6221 \/ WArm \/ WInit \/ WT0Lock \/ WT0Set \/ WPoll \/ WStream \/ WEmit
    \/ WComplete \/ WFinalRst \/ WEmitDone

(***************************************************************************)
(* Nanovoltmeter: GUI thread                                               *)
(***************************************************************************)

\* start_clicked: `if self.running: return`, then `with self.lock:`
StartClicked ==
    /\ app = "nano" /\ gpc = "idle" /\ btn_start
    /\ IF running
       THEN UNCHANGED <<lock, gpc>>
       ELSE lock = "free" /\ lock' = "gui" /\ gpc' = "start_body"
    /\ UNCHANGED <<app, running, evq, wpc, status, nanoVars, picoVars>>

\* start_clicked, lock held: clear the series and start_time, set running
StartBody ==
    /\ app = "nano" /\ gpc = "start_body" /\ lock = "gui"
    /\ start_time' = IF ~running THEN "None" ELSE start_time
    /\ running' = TRUE
    /\ btn_start' = FALSE
    /\ lock' = "free"
    /\ gpc' = "idle"
    /\ UNCHANGED <<app, evq, wpc, status, nanoLocals, nanoGhost, instr, exiting,
                   picoVars>>

\* clear_clicked: `with self.lock:`
ClearClicked ==
    /\ app = "nano" /\ gpc = "idle" /\ lock = "free"
    /\ lock' = "gui"
    /\ gpc' = "clear_body"
    /\ UNCHANGED <<app, running, evq, wpc, status, nanoVars, picoVars>>

\* clear_clicked, lock held: running = False, start_time = None; then the
\* axes are redrawn and Start is enabled
ClearBody ==
    /\ app = "nano" /\ gpc = "clear_body" /\ lock = "gui"
    /\ running' = FALSE
    /\ start_time' = "None"
    /\ lock' = "free"
    /\ btn_start' = TRUE
    /\ gpc' = "idle"
    /\ UNCHANGED <<app, evq, wpc, status, nanoLocals, nanoGhost, instr, exiting,
                   picoVars>>

\* handle_new_point, the slot of new_point
HandleNewPoint ==
    /\ app = "nano" /\ gpc = "idle"
    /\ evq # <<>> /\ Head(evq)[1] = "new_point"
    /\ evq' = Tail(evq)
    /\ UNCHANGED <<app, lock, running, gpc, wpc, status, nanoVars, picoVars>>

\* run_done, the slot of done: set_status, then `with self.lock:`
RunDone ==
    /\ app = "nano" /\ gpc = "idle"
    /\ evq # <<>> /\ Head(evq)[1] = "done"
    /\ lock = "free"
    /\ evq' = Tail(evq)
    /\ lock' = "gui"
    /\ gpc' = "done_body"
    /\ UNCHANGED <<app, running, wpc, status, nanoVars, picoVars>>

\* what run_done leaves in self.running
RunDoneRunning == FALSE

\* run_done, lock held: running = False, Start enabled
RunDoneBody ==
    /\ app = "nano" /\ gpc = "done_body" /\ lock = "gui"
    /\ running' = RunDoneRunning
    /\ btn_start' = TRUE
    /\ lock' = "free"
    /\ gpc' = "idle"
    /\ UNCHANGED <<app, evq, wpc, status, nanoLocals, nanoGhost, instr,
                   exiting, start_time, picoVars>>

\* closeEvent: `with self.lock:`
CloseEvent ==
    /\ app = "nano" /\ gpc = "idle" /\ lock = "free"
    /\ lock' = "gui"
    /\ gpc' = "close_body"
    /\ UNCHANGED <<app, running, evq, wpc, status, nanoVars, picoVars>>

\* closeEvent, lock held: running = False
CloseBody ==
    /\ app = "nano" /\ gpc = "close_body" /\ lock = "gui"
    /\ running' = FALSE
    /\ lock' = "free"
    /\ gpc' = "close_exit"
    /\ UNCHANGED <<app, evq, wpc, status, nanoVars, picoVars>>

\* closeEvent: `self.exiting = True`
CloseExit ==
    /\ app = "nano" /\ gpc = "close_exit"
    /\ exiting' = TRUE
    /\ gpc' = "close_join"
    /\ UNCHANGED <<app, lock, running, evq, wpc, status, nanoLocals, nanoGhost,
                   instr, start_time, btn_start, picoVars>>

\* `self.worker.join(timeout=1.0)` returns: the worker has ended, or the
\* second has passed.  A worker outside _run_delta_mode sleeps 0.05 s and sees
\* exiting well within the second; one inside it (sleeps of 0.5, 1.5 and 2 s,
\* then the poll loop) does not.
JoinReturns == wpc = "dead" \/ wpc \notin {"loop", "check"}

\* closeEvent: wait for the worker
CloseJoin ==
    /\ app = "nano" /\ gpc = "close_join"
    /\ JoinReturns
    /\ gpc' = "close_reset"
    /\ UNCHANGED <<app, lock, running, evq, wpc, status, nanoVars, picoVars>>

\* closeEvent: `try: write("OUTP OFF"); write("*RST"); close() ... except: pass`,
\* then event.accept().  A write that raises skips close().
CloseReset ==
    /\ app = "nano" /\ gpc = "close_reset"
    /\ \/ /\ IoUp
          /\ InstrReset
          /\ closed' = TRUE
       \/ UNCHANGED <<buf, measuring, closed>>
    /\ gpc' = "quit"
    /\ UNCHANGED <<app, lock, running, evq, wpc, status, nanoLocals, nanoGhost,
                   link, nanoGui, picoVars>>

NanoGui ==
    \/ StartClicked \/ StartBody \/ ClearClicked \/ ClearBody \/ HandleNewPoint
    \/ RunDone \/ RunDoneBody \/ CloseEvent \/ CloseBody \/ CloseExit \/ CloseJoin
    \/ CloseReset

(***************************************************************************)
(* Nanovoltmeter: the instrument                                           *)
(***************************************************************************)

\* The 6221 stores one more Delta reading in its trace buffer.
Measure ==
    /\ app = "nano" /\ measuring /\ link /\ buf < MaxBuf
    /\ buf' = buf + 1
    /\ UNCHANGED <<app, lock, running, evq, gpc, wpc, status, nanoLocals,
                   nanoGhost, link, measuring, closed, nanoGui, picoVars>>

\* The GPIB link is lost for good (cable pulled, instrument switched off).
LinkDrop ==
    /\ app = "nano" /\ link
    /\ link' = FALSE
    /\ UNCHANGED <<app, lock, running, evq, gpc, wpc, status, nanoLocals,
                   nanoGhost, buf, measuring, closed, nanoGui, picoVars>>

NanoNext == NanoWorker \/ NanoGui \/ Measure \/ LinkDrop

(***************************************************************************)
(* Picoammeter: polling thread (update_loop)                               *)
(***************************************************************************)

\* `with self.lock: is_running = self.running`
PTop ==
    /\ app = "pico" /\ wpc = "p_top" /\ lock = "free"
    /\ lock' = "worker"
    /\ is_running' = running
    /\ wpc' = "p_rd_paused"
    /\ UNCHANGED <<app, running, evq, gpc, status, nanoVars, picoShared, picoGui,
                   is_paused, total_time, resume_time, clock>>

\* update_loop starts every turn with is_running = False, is_paused = True;
\* total_time and resume_time of an earlier turn are never read again.
LoopTop ==
    /\ is_running' = FALSE /\ is_paused' = TRUE
    /\ total_time' = 0 /\ resume_time' = None
    /\ wpc' = "p_top"

\* `is_paused = self.paused; if is_running and not is_paused:`; the else
\* branch releases the lock and sleeps 0.3 s
PRdPaused ==
    /\ app = "pico" /\ wpc = "p_rd_paused" /\ lock = "worker"
    /\ IF is_running /\ ~paused
       THEN /\ is_paused' = paused
            /\ wpc' = "p_rd_total"
            /\ UNCHANGED <<lock, is_running, total_time, resume_time>>
       ELSE /\ lock' = "free"
            /\ LoopTop
    /\ UNCHANGED <<app, running, evq, gpc, status, nanoVars, picoShared, picoGui, clock>>

\* `total_time = self.total_run_time`
PRdTotal ==
    /\ app = "pico" /\ wpc = "p_rd_total" /\ lock = "worker"
    /\ total_time' = total_run_time
    /\ wpc' = "p_rd_resume"
    /\ UNCHANGED <<app, lock, running, evq, gpc, status, nanoVars, picoShared,
                   picoGui, is_running, is_paused, resume_time, clock>>

\* `resume_time = self.last_resume_time`, end of the with block
PRdResume ==
    /\ app = "pico" /\ wpc = "p_rd_resume" /\ lock = "worker"
    /\ resume_time' = last_resume_time
    /\ lock' = "free"
    /\ wpc' = "p_query"
    /\ UNCHANGED <<app, running, evq, gpc, status, nanoVars, picoShared, picoGui,
                   is_running, is_paused, total_time, clock>>

\* `self.inst.query("READ?")` is sent; the answer is awaited outside the lock
PQuery ==
    /\ app = "pico" /\ wpc = "p_query"
    /\ wpc' = "p_inflight"
    /\ UNCHANGED <<app, lock, running, evq, gpc, status, nanoVars, picoVars>>

\* `elapsed = total_time + (now - resume_time)`
Elapsed(total, resume, t) == total + (t - resume)

\* The answer arrives.  Parsed: elapsed is computed and new_data emitted, then
\* sleep 0.1 s.  The query or the parse raises, or resume_time is None
\* (TypeError in the subtraction): the except branch emits "Error: ...".
PReply ==
    /\ app = "pico" /\ wpc = "p_inflight"
    /\ \/ /\ resume_time # None
          /\ Emit(<<"new_data", Elapsed(total_time, resume_time, now), active>>)
          /\ LoopTop
          /\ UNCHANGED status
       \/ /\ status' = "Error"
          /\ wpc' = "p_err_lock"
          /\ UNCHANGED <<evq, picoLocals>>
    /\ UNCHANGED <<app, lock, running, gpc, nanoVars, picoShared, picoGui, clock>>

\* except branch: `with self.lock:`
PErrLock ==
    /\ app = "pico" /\ wpc = "p_err_lock" /\ lock = "free"
    /\ lock' = "worker"
    /\ wpc' = "p_err_set"
    /\ UNCHANGED <<app, running, evq, gpc, status, nanoVars, picoVars>>

\* an except branch that leaves self.running as it finds it
ErrRunningKept == running

\* what the except branch leaves in self.running
ErrRunning == FALSE

\* except branch, lock held: running = False, paused = False
PErrSet ==
    /\ app = "pico" /\ wpc = "p_err_set" /\ lock = "worker"
    /\ running' = ErrRunning
    /\ paused' = FALSE
    /\ lock' = "free"
    /\ wpc' = "p_err_btn"
    /\ UNCHANGED <<app, evq, gpc, status, nanoVars, total_run_time,
                   last_resume_time, picoGui, picoLocals, clock>>

\* except branch: Play enabled, Pause disabled; the loop goes on
PErrBtn ==
    /\ app = "pico" /\ wpc = "p_err_btn"
    /\ btn_play' = TRUE
    /\ btn_pause' = FALSE
    /\ LoopTop
    /\ UNCHANGED <<app, lock, running, evq, gpc, status, nanoVars, picoShared,
                   timestamps, clock>>

PicoWorker ==
    \/ PTop \/ PRdPaused \/ PRdTotal \/ PRdResume \/ PQuery \/ PReply
    \/ PErrLock \/ PErrSet \/ PErrBtn

(***************************************************************************)
(* Picoammeter: GUI thread                                                 *)
(***************************************************************************)

\* `if not self.running and not self.paused: self.setup_instrument()`
NeedsSetup(r, p) == ~r /\ ~p

\* a play_reading that takes everything for the resume of a paused run
AlreadyRunningMissed(r, p) == FALSE

\* `if self.running and not self.paused:`
AlreadyRunning(r, p) == r /\ ~p

\* play_reading: `with self.lock:`, the "Already running." return, and the
\* choice between a fresh start and a resume
PlayReading ==
    /\ app = "pico" /\ gpc = "idle" /\ btn_play /\ lock = "free"
    /\ lock' = "gui"
    /\ gpc' = IF AlreadyRunning(running, paused) THEN "play_reject"
              ELSE IF NeedsSetup(running, paused) THEN "play_setup" ELSE "play_set"
    /\ UNCHANGED <<app, running, evq, wpc, status, nanoVars, picoVars>>

\* play_reading: `self.update_status("Already running."); return` leaves the
\* with block
PlayReject ==
    /\ app = "pico" /\ gpc = "play_reject" /\ lock = "gui"
    /\ lock' = "free"
    /\ gpc' = "idle"
    /\ UNCHANGED <<app, running, evq, wpc, status, nanoVars, picoVars>>

\* setup_instrument: *RST, *CLS and the configuration writes, lock held
PlaySetup ==
    /\ app = "pico" /\ gpc = "play_setup" /\ lock = "gui"
    /\ gpc' = "play_set"
    /\ UNCHANGED <<app, lock, running, evq, wpc, status, nanoVars, picoVars>>

\* play_reading, lock held: running, paused, last_resume_time
PlaySet ==
    /\ app = "pico" /\ gpc = "play_set" /\ lock = "gui"
    /\ running' = TRUE
    /\ paused' = FALSE
    /\ last_resume_time' = now
    /\ lock' = "free"
    /\ gpc' = "play_btn"
    /\ UNCHANGED <<app, evq, wpc, status, nanoVars, total_run_time, picoGui,
                   picoLocals, clock>>

\* play_reading after the with block: buttons and status
PlayBtn ==
    /\ app = "pico" /\ gpc = "play_btn"
    /\ btn_play' = FALSE
    /\ btn_pause' = TRUE
    /\ status' = "Measurement started or resumed."
    /\ gpc' = "idle"
    /\ UNCHANGED <<app, lock, running, evq, wpc, nanoVars, picoShared, timestamps,
                   picoLocals, clock>>

\* `if not self.running or self.paused:`
NotPausable(r, p) == ~r \/ p

\* pause_reading: `with self.lock:` and the "Not running or already paused." return
PauseReading ==
    /\ app = "pico" /\ gpc = "idle" /\ btn_pause /\ lock = "free"
    /\ lock' = "gui"
    /\ gpc' = IF NotPausable(running, paused) THEN "pause_reject" ELSE "pause_set"
    /\ UNCHANGED <<app, running, evq, wpc, status, nanoVars, picoVars>>

\* pause_reading: `self.update_status("Not running or already paused."); return`
\* leaves the with block
PauseReject ==
    /\ app = "pico" /\ gpc = "pause_reject" /\ lock = "gui"
    /\ lock' = "free"
    /\ gpc' = "idle"
    /\ UNCHANGED <<app, running, evq, wpc, status, nanoVars, picoVars>>

\* pause_reading, lock held: paused = True, total_run_time += now - last_resume_time
PauseSet ==
    /\ app = "pico" /\ gpc = "pause_set" /\ lock = "gui"
    /\ paused' = TRUE
    /\ total_run_time' = total_run_time + (now - last_resume_time)
    /\ lock' = "free"
    /\ gpc' = "pause_btn"
    /\ UNCHANGED <<app, running, evq, wpc, status, nanoVars, last_resume_time,
                   picoGui, picoLocals, clock>>

\* pause_reading after the with block: buttons and status
PauseBtn ==
    /\ app = "pico" /\ gpc = "pause_btn"
    /\ btn_pause' = FALSE
    /\ btn_play' = TRUE
    /\ status' = "Measurement paused."
    /\ gpc' = "idle"
    /\ UNCHANGED <<app, lock, running, evq, wpc, nanoVars, picoShared, timestamps,
                   picoLocals, clock>>

\* clear_data, answered Yes: the series are cleared, then `self.running = False`
\* (no lock is taken anywhere in clear_data)
ClearData ==
    /\ app = "pico" /\ gpc = "idle"
    /\ timestamps' = <<>>
    /\ running' = FALSE
    /\ active' = 0
    /\ gpc' = "clear_paused"
    /\ UNCHANGED <<app, lock, evq, wpc, status, nanoVars, picoShared, btn_play,
                   btn_pause, picoLocals, now>>

\* clear_data: `self.paused = False`
ClearPaused ==
    /\ app = "pico" /\ gpc = "clear_paused"
    /\ paused' = FALSE
    /\ gpc' = "clear_total"
    /\ UNCHANGED <<app, lock, running, evq, wpc, status, nanoVars, total_run_time,
                   last_resume_time, picoGui, picoLocals, clock>>

\* clear_data: `self.total_run_time = 0.0`
ClearTotal ==
    /\ app = "pico" /\ gpc = "clear_total"
    /\ total_run_time' = 0
    /\ gpc' = "clear_resume"
    /\ UNCHANGED <<app, lock, running, evq, wpc, status, nanoVars, paused,
                   last_resume_time, picoGui, picoLocals, clock>>

\* clear_data: `self.last_resume_time = None`, then buttons and status
ClearResume ==
    /\ app = "pico" /\ gpc = "clear_resume"
    /\ last_resume_time' = None
    /\ btn_play' = TRUE
    /\ btn_pause' = FALSE
    /\ gpc' = "idle"
    /\ UNCHANGED <<app, lock, running, evq, wpc, status, nanoVars, paused, total_run_time,
                   timestamps, picoLocals, clock>>

\* handle_new_data, the slot of new_data: append to the series
HandleNewData ==
    /\ app = "pico" /\ gpc = "idle"
    /\ evq # <<>> /\ Len(timestamps) < MaxSeries
    /\ timestamps' = Append(timestamps, [elapsed |-> Head(evq)[2], truth |-> Head(evq)[3]])
    /\ evq' = Tail(evq)
    /\ UNCHANGED <<app, lock, running, gpc, wpc, status, nanoVars, picoShared,
                   btn_play, btn_pause, picoLocals, clock>>

PicoGui ==
    \/ PlayReading \/ PlayReject \/ PlaySetup \/ PlaySet \/ PlayBtn
    \/ PauseReading \/ PauseReject \/ PauseSet \/ PauseBtn
    \/ ClearData \/ ClearPaused \/ ClearTotal \/ ClearResume \/ HandleNewData

\* One unit of wall-clock time passes; it counts as measuring time exactly
\* when the measurement is running and not paused.
Tick ==
    /\ app = "pico" /\ now < MaxTime
    /\ now' = now + 1
    /\ active' = IF running /\ ~paused THEN active + 1 ELSE active
    /\ UNCHANGED <<app, lock, running, evq, gpc, wpc, status, nanoVars, picoShared,
                   picoGui, picoLocals>>

PicoNext == PicoWorker \/ PicoGui \/ Tick

Init ==
    /\ app \in {"nano", "pico"}
    /\ lock = "free"
    /\ running = FALSE /\ exiting = FALSE
    /\ start_time = "None"
    /\ btn_start = TRUE
    /\ evq = <<>>
    /\ gpc = "idle"
    /\ wpc = IF app = "nano" THEN "loop" ELSE "p_top"
    /\ status = "Connected"
    /\ expected = 0 /\ last_len = 0 /\ vals = 0 /\ idx = 0
    /\ sent = <<>> /\ emittedIdx = <<>> /\ t0_set = FALSE /\ ioAfterClose = FALSE
    /\ link = TRUE /\ buf = 0 /\ measuring = FALSE /\ closed = FALSE
    /\ paused = FALSE /\ btn_play = TRUE /\ btn_pause = FALSE
    /\ total_run_time = 0 /\ last_resume_time = None
    /\ timestamps = <<>>
    /\ now = 0 /\ active = 0
    /\ is_running = FALSE /\ is_paused = TRUE /\ total_time = 0 /\ resume_time = None

Next == NanoNext \/ PicoNext

\* A run of either program
Spec == Init /\ [][Next]_vars

\* The nanovoltmeter program alone
NanoInit == Init /\ app = "nano"
NanoSpec == NanoInit /\ [][NanoNext]_vars

\* The picoammeter program alone
PicoInit == Init /\ app = "pico"
PicoSpec == PicoInit /\ [][PicoNext]_vars

\* A handler that has started runs to its end
GuiRuns ==
    \/ StartBody \/ ClearBody \/ RunDoneBody
    \/ CloseBody \/ CloseExit \/ CloseJoin \/ CloseReset

\* The event loop delivers a queued signal to its slot
Delivery == HandleNewPoint \/ RunDone

\* A TRAC:DATA? that a reachable instrument answers with its whole buffer
PollFull == WPoll /\ IoUp /\ vals' = buf

\* The nanovoltmeter under its scheduling: the worker thread keeps being run
\* (also when the GUI thread takes the lock again and again), the GUI thread
\* finishes the handler it is in, the event loop delivers every queued signal
\* (also when the user keeps clicking), the armed instrument keeps measuring
\* while it is reachable, and a reachable instrument answers TRAC:DATA? with
\* everything it has stored.  Nothing obliges the user to click, nor the link
\* to hold.
NanoFairSpec ==
    /\ NanoInit /\ [][NanoNext]_vars
    /\ SF_vars(NanoWorker)
    /\ WF_vars(GuiRuns)
    /\ SF_vars(Delivery)
    /\ WF_vars(Measure)
    /\ SF_vars(PollFull)

(***************************************************************************)
(* Properties of the Delta run's command record                            *)
(***************************************************************************)

Route(c, r) == [cmd |-> c, via |-> r]
RouteOf(e) == Route(e.cmd, e.via)

\* The steps of _run_delta_mode before INIT:IMM, in program order
Handshake ==
    <<Route("*RST", "gpib"), Route("*RST", "relay"), Route("SOUR:DELT:NVPR?", "gpib"),
      Route("2182A settings", "relay")>>
    \o [k \in 1..Len(Cfg6221) |-> Route(Cfg6221[k], "gpib")]
    \o <<Route("SOUR:DELT:ARM", "gpib")>>

InitSent == \E i \in DOMAIN sent : sent[i].cmd = "INIT:IMM"
ArmWritten == \E i \in DOMAIN sent : sent[i].cmd = "SOUR:DELT:ARM" /\ sent[i].ok

\* C1 (as stated): INIT:IMM is sent only after the six steps, each of them
\* done (written, relayed, answered 1), in order, none skipped.
C1_HandshakeAllDone ==
    app = "nano" =>
        \A i \in DOMAIN sent :
            sent[i].cmd = "INIT:IMM" =>
                /\ i = Len(Handshake) + 1
                /\ \A k \in 1..(i - 1) : RouteOf(sent[k]) = Handshake[k] /\ sent[k].ok

\* C1 (amended): INIT:IMM is sent only after the six steps were taken in
\* order, none skipped: every command written directly to the 6221 was
\* written, NVPR? answered 1, and each relay to the 2182A was attempted (a
\* relay whose write raised was only reported and did not stop the run).
C1_HandshakeOrder ==
    app = "nano" =>
        \A i \in DOMAIN sent :
            sent[i].cmd = "INIT:IMM" =>
                /\ i = Len(Handshake) + 1
                /\ \A k \in 1..(i - 1) :
                      /\ RouteOf(sent[k]) = Handshake[k]
                      /\ (sent[k].via = "gpib" => sent[k].ok)

\* C1 witness: INIT:IMM was accepted after a handshake in which every step,
\* the relays included, went through.
C1_Witness ==
    /\ app = "nano" /\ wpc = "t0_lock"
    /\ \A k \in DOMAIN sent : sent[k].ok

\* A command of the setup (everything before INIT:IMM) was written straight
\* to the 6221 and raised, or NVPR? raised or answered something other than 1.
SetupFailed ==
    \E i \in DOMAIN sent :
        /\ sent[i].via = "gpib" /\ ~sent[i].ok
        /\ \A j \in 1..i : sent[j].cmd # "INIT:IMM"

\* Any command of the setup raised, the relayed ones included.
AnySetupCommandFailed ==
    \E i \in DOMAIN sent :
        /\ ~sent[i].ok
        /\ \A j \in 1..i : sent[j].cmd # "INIT:IMM"

\* _run_delta_mode has reported 'Setup Error' and returned; nothing of the
\* run proper has happened.
AbortedBeforeStart ==
    /\ wpc = "emit_done"
    /\ status = "Setup Error"
    /\ ~ArmWritten /\ ~InitSent
    /\ emittedIdx = <<>>
    /\ ~t0_set

\* The worker's step out of "emit_done" queues done (unless the window is gone).
DoneIsEmitted ==
    (wpc = "emit_done" /\ wpc' # wpc) =>
        (wpc' = "loop" /\ (gpc = "quit" \/ evq' = Append(evq, <<"done">>)))

\* run_done ends with running = False and Start enabled.
RunDoneResets ==
    (gpc = "done_body" /\ gpc' # gpc) => (~running' /\ btn_start' /\ gpc' = "idle")

\* C2 (as stated): when NVPR? raises or answers other than 1, or any other
\* setup command raises, the run reports 'Setup Error' and returns without
\* ARM, INIT:IMM, new_point or start_time.
C2_AnyFailureAborts ==
    (app = "nano" /\ AnySetupCommandFailed) => AbortedBeforeStart

\* C2 (amended): when NVPR? raises or answers other than 1, or a setup command
\* written directly to the 6221 raises, the run reports 'Setup Error' and
\* returns without ARM, INIT:IMM, new_point or start_time; the worker then
\* emits done, and run_done leaves running False and Start enabled.  (A relay
\* send that raises is only reported and the setup goes on.)
C2_SetupFailureAborts ==
    /\ []((app = "nano" /\ SetupFailed) => AbortedBeforeStart)
    /\ [][app = "nano" => (DoneIsEmitted /\ RunDoneResets)]_vars

\* C2 witness: the link check failed and the run is about to emit done.
C2_Witness ==
    /\ app = "nano" /\ wpc = "emit_done"
    /\ \E i \in DOMAIN sent : sent[i].cmd = "SOUR:DELT:NVPR?" /\ ~sent[i].ok

(***************************************************************************)
(* Properties of the poll loop                                             *)
(***************************************************************************)

PollLoop == {"poll", "stream", "emit", "complete"}

RECURSIVE Upto(_)
\* <<0, 1, ..., n-1>>
Upto(n) == IF n = 0 THEN <<>> ELSE Append(Upto(n - 1), n - 1)

\* C4: within one Delta run the indices passed to new_point are strictly
\* increasing (so none is emitted twice), whatever the polls return, and when
\* the run completes they are exactly 0 .. len(vals)-1 of the final poll.
C4_EachReadingOnce ==
    app = "nano" =>
        /\ \A i, j \in DOMAIN emittedIdx : i < j => emittedIdx[i] < emittedIdx[j]
        /\ (wpc = "final_rst" => emittedIdx = Upto(vals))

\* C4 witness: a run completes with a full buffer of readings streamed.
C4_Witness ==
    /\ app = "nano" /\ wpc = "final_rst"
    /\ Len(emittedIdx) >= 2
    /\ idx = vals /\ vals = MaxBuf

(***************************************************************************)
(* Properties of the picoammeter's run state                               *)
(***************************************************************************)

\* C5: every reading in the series carries, as its elapsed value, the time
\* the measurement had spent running and not paused since the last clear.
C5_ElapsedIsMeasuringTime ==
    app = "pico" =>
        \A i \in DOMAIN timestamps : timestamps[i].elapsed = timestamps[i].truth

\* The run state the lock is there for
nanoRunState == <<running, start_time>>
picoRunState == <<running, paused, total_run_time, last_resume_time>>

\* C6: every step that assigns the shared run state (the nanovoltmeter's
\* running and start_time, the picoammeter's running, paused, total_run_time
\* and last_resume_time) is taken by a thread that holds the lock.
C6_LockGuardsRunState ==
    [][(nanoRunState' # nanoRunState \/ picoRunState' # picoRunState) =>
          \/ (gpc' # gpc /\ lock = "gui")
          \/ (wpc' # wpc /\ lock = "worker")]_vars

\* C7: the GUI thread never runs setup_instrument while the polling thread
\* has a READ? query in flight.
C7_OneThreadOnHandle ==
    ~(app = "pico" /\ gpc = "play_setup" /\ wpc = "p_inflight")

ErrorPath == {"p_err_lock", "p_err_set", "p_err_btn"}

\* C8: a READ? whose query or parse raises makes the polling thread emit an
\* 'Error' status and queue no reading for that poll; it then sets running
\* and paused to False under the lock, enables Play and disables Pause, and
\* goes back to the top of its loop; a play_reading that finds the
\* measurement idle reconfigures the instrument before it sets running.
C8_CatchAndReport ==
    [][app = "pico" =>
          /\ ((wpc = "p_inflight" /\ wpc' \in ErrorPath) =>
                 (wpc' = "p_err_lock" /\ status' = "Error" /\ evq' = evq))
          /\ ((wpc \in ErrorPath /\ wpc' # wpc) => evq' = evq)
          /\ ((wpc = "p_err_set" /\ wpc' # wpc) =>
                 (lock = "worker" /\ ~running' /\ ~paused' /\ wpc' = "p_err_btn"))
          /\ ((wpc = "p_err_btn" /\ wpc' # wpc) =>
                 (btn_play' /\ ~btn_pause' /\ wpc' = "p_top"))
          /\ ((gpc = "idle" /\ gpc' \in {"play_setup", "play_set"} /\ ~running /\ ~paused) =>
                 gpc' = "play_setup")
          /\ ((gpc = "play_set" /\ gpc' # gpc) => (running' /\ ~paused'))]_vars

\* C8 witness: after a reported read error the thread is back at the top of
\* its loop and Play, pressed again, is reconfiguring the instrument.
C8_Witness ==
    /\ app = "pico" /\ status = "Error"
    /\ wpc = "p_top" /\ gpc = "play_setup"
    /\ btn_play /\ ~btn_pause

\* C11: while the measurement is paused (pause_reading has set paused and
\* play_reading has not yet cleared it) no reading is appended to the series.
C11_PauseStopsAcquisition ==
    [][(app = "pico" /\ paused) => Len(timestamps') <= Len(timestamps)]_vars

\* What a rejected command must leave alone
picoFrame == <<running, paused, total_run_time, last_resume_time, timestamps,
               btn_play, btn_pause>>

\* C12: play_reading is rejected exactly when the measurement is running and
\* not paused, pause_reading exactly when it is not running or already
\* paused; the rejected handler, from its call to its return, changes none of
\* running, paused, total_run_time, last_resume_time, the series and the
\* Play/Pause enablement, and returns without reaching setup_instrument or
\* any other instrument command.
C12_RejectedChangesNothing ==
    [][app = "pico" =>
          /\ ((gpc = "idle" /\ gpc' \in {"play_reject", "play_setup", "play_set"}) =>
                 ((gpc' = "play_reject") <=> (running /\ ~paused)))
          /\ ((gpc = "idle" /\ gpc' \in {"pause_reject", "pause_set"}) =>
                 ((gpc' = "pause_reject") <=> (~running \/ paused)))
          /\ ((gpc' \in {"play_reject", "pause_reject"} /\ gpc' # gpc) =>
                 (gpc = "idle" /\ UNCHANGED picoFrame))
          /\ ((gpc \in {"play_reject", "pause_reject"} /\ gpc' # gpc) =>
                 (gpc' = "idle" /\ UNCHANGED picoFrame))]_vars

\* C12 witness: Play, pressed while the measurement is running and not
\* paused, has been rejected and is about to return.
C12_Witness ==
    /\ app = "pico" /\ gpc = "play_reject"
    /\ running /\ ~paused /\ btn_play

\* C13: play_reading runs setup_instrument exactly when it finds the
\* measurement idle (running and paused both False) and not when it resumes
\* a paused one; either way it ends with running = True, paused = False,
\* last_resume_time = the current time and total_run_time as it was; and in
\* every reachable state paused = True implies running = True.
C13_StartVersusResume ==
    /\ [](app = "pico" => (paused => running))
    /\ [][app = "pico" =>
             /\ ((gpc = "idle" /\ gpc' \in {"play_setup", "play_set"}) =>
                    ((gpc' = "play_setup") <=> (~running /\ ~paused)))
             /\ ((gpc = "play_setup" /\ gpc' # gpc) => gpc' = "play_set")
             /\ ((gpc = "play_set" /\ gpc' # gpc) =>
                    /\ running' /\ ~paused'
                    /\ last_resume_time' = now
                    /\ total_run_time' = total_run_time)]_vars

(***************************************************************************)
(* Termination and shutdown of the Delta run                               *)
(***************************************************************************)

\* C9: a worker that has entered _run_delta_mode eventually returns from it
\* and emits done (it is back at the top of worker_loop), unless the
\* application has quit in the meantime.
C9_DeltaRunFinishes ==
    (app = "nano" /\ wpc = "enter") ~> (wpc = "loop" \/ gpc = "quit")

\* C10: once closeEvent has reset and closed the handle the worker sends
\* nothing more to the instrument.
C10_QuietAfterClose == ~ioAfterClose

====
